---- MODULE Spec2Model ----
(***************************************************************************)
(* A model of roombapy's telemetry handling: Roomba.on_message merges a    *)
(* telemetry fragment into master_state, _update_state_machine derives the *)
(* mission state and the anomaly flags, and RoombaMapper accumulates the   *)
(* travelled path.                                                         *)
(*                                                                         *)
(* Python values are modelled by type: None is the string "None" for       *)
(* string-valued properties, NoneNum for number-valued ones and NonePose   *)
(* for the pose dictionary.  An image is modelled by the set of layers     *)
(* composed into it.  The raster work of _initialize_map (a blank base     *)
(* image for the map) assigns none of the state below and is left out.     *)
(***************************************************************************)
EXTENDS Integers, Sequences, FiniteSets, TLC

VARIABLES
    master_state,        \* Roomba.master_state, by property name
    _history,            \* Roomba._history: property -> {current, previous}
    _flags,              \* Roomba._flags: the set of flags that are set
    current_state,       \* Roomba.current_state
    map_enabled,         \* RoombaMapper.map_enabled
    _points_to_skip,     \* RoombaMapper._points_to_skip
    _points_skipped,     \* RoombaMapper._points_skipped
    mapper_history,      \* RoombaMapper._history (raw positions)
    _history_translated, \* RoombaMapper._history_translated
    reset_calls,         \* calls of RoombaMapper.reset_map made by the last update
    entry_state,         \* current_state when the last update began
    log,                 \* the fragments received so far, while at most MaxLog
    nmsg,                \* number of fragments received, counted up to MaxLog + 1
    call,                \* the last call of a helper function: its arguments and result
    _rendered_map,       \* RoombaMapper._rendered_map: the layers composed into it
    render_calls,        \* calls of RoombaMapper._render_map made by the last update
    raised,              \* the exception the last handler call ended with, or None
    update_map_arg,      \* force_redraw as the last update passed it to update_map, or None
    recharge_stage,      \* how far the phases have gone through a mid mission recharge
    continuous,          \* Roomba.continuous
    stop_connection,     \* Roomba.stop_connection
    periodic_connection_running, \* Roomba.periodic_connection_running
    roomba_connected,    \* Roomba.roomba_connected
    client_error,        \* Roomba.client_error
    thread_started,      \* Roomba._thread has been started
    pc,                  \* where each thread stands in the method it runs
    link,                \* the remote client's connection: down, connecting, up, closing
    callback_log,        \* the disconnect callbacks the last on_disconnect call invoked
    loop_disconnects,    \* remote_client.disconnect() calls of each thread's current loop
    caller_error,        \* the exception the last call of each thread raised, or None
    attempted            \* each thread's loop has called remote_client.connect() since the last remote disconnect

vars == << master_state, _history, _flags, current_state, map_enabled,
           _points_to_skip, _points_skipped, mapper_history,
           _history_translated, reset_calls, entry_state, log, nmsg, call,
           _rendered_map, render_calls, raised, update_map_arg, recharge_stage,
           continuous,
           stop_connection,
           periodic_connection_running, roomba_connected, client_error,
           thread_started, pc, link, callback_log, loop_disconnects, caller_error,
           attempted >>

\* the connection state of the Roomba, its threads and the remote client
conn_vars ==
    << continuous, stop_connection, periodic_connection_running, roomba_connected,
       client_error, thread_started, pc, link, callback_log, loop_disconnects,
       caller_error, attempted >>

\* the telemetry state of the Roomba and its mapper
telemetry_vars ==
    << master_state, _history, _flags, current_state, map_enabled,
       _points_to_skip, _points_skipped, mapper_history, _history_translated,
       reset_calls, entry_state, log, nmsg, _rendered_map, render_calls, raised,
       update_map_arg, recharge_stage >>

----------------------------------------------------------------------------
(* Bounds of the model *)

MaxLog == 2
MaxPath == 3

----------------------------------------------------------------------------
(* Python values *)

None == "None"
NoneNum == 0 - 1
NonePose == [isNone |-> TRUE]
\* the point dictionary of master_state's pose, held by reference
PointRef == [ref |-> "master_state.pose.point"]

Truthy(v) == v = "True"

----------------------------------------------------------------------------
(* const.py *)

DEFAULT_MAP_SKIP_POINTS == 3
DEFAULT_MAP_MAX_ALLOWED_DISTANCE == 500
DEFAULT_IMG_WIDTH == 1000
DEFAULT_IMG_HEIGHT == 1000

StateKeys ==
    { "charge", "new", "run", "resume", "hmMidMsn", "recharge", "stuck",
      "hmUsrDock", "dock", "dockend", "cancelled", "completed", "stop",
      "pause", "hmPostMsn", "evac", "chargingerror", "" }

ROOMBA_STATES ==
    [ k \in StateKeys |->
        IF k = "charge" THEN "Charging"
        ELSE IF k = "new" THEN "New Mission"
        ELSE IF k = "run" THEN "Running"
        ELSE IF k = "resume" THEN "Running"
        ELSE IF k = "hmMidMsn" THEN "Recharging"
        ELSE IF k = "recharge" THEN "Recharging"
        ELSE IF k = "stuck" THEN "Stuck"
        ELSE IF k = "hmUsrDock" THEN "User Docking"
        ELSE IF k = "dock" THEN "Docking"
        ELSE IF k = "dockend" THEN "Docking - End Mission"
        ELSE IF k = "cancelled" THEN "Cancelled"
        ELSE IF k = "completed" THEN "Mission Completed"
        ELSE IF k = "stop" THEN "Stopped"
        ELSE IF k = "pause" THEN "Paused"
        ELSE IF k = "hmPostMsn" THEN "End Mission"
        ELSE IF k = "evac" THEN "Emptying Bin"
        ELSE IF k = "chargingerror" THEN "Base Unplugged"
        ELSE None ]

----------------------------------------------------------------------------
(* The default map definition: RoombaMap("default", "Default") *)

DefaultMap ==
    [ coords_start |-> << 0 - 1000, 0 - 1000 >>,
      coords_end   |-> << 1000, 1000 >>,
      angle        |-> 0,
      img_width    |-> DEFAULT_IMG_WIDTH,
      img_height   |-> DEFAULT_IMG_HEIGHT ]

----------------------------------------------------------------------------
(* Roomba: the telemetry store and the property history *)

\* the properties the model tracks in master_state
StrProps == { "cycle", "phase", "bin_full", "cap" }
NumProps == { "tankLvl", "batPct", "mssnM", "mssnStrtTm", "rechrgM" }
Props == StrProps \cup NumProps \cup { "pose" }

NoneOf(property) ==
    IF property = "pose" THEN NonePose
    ELSE IF property \in NumProps THEN NoneNum
    ELSE None

\* a fragment (and the empty master_state) holds NoneOf(k) at every key it lacks
EmptyDict == [ k \in Props |-> NoneOf(k) ]

\* merge_dct's keys replace dct's; the nested pose dictionary is updated in
\* place, key by key, so the objects of master_state keep their identity
dict_merge(dct, merge_dct) ==
    [ k \in Props |-> IF merge_dct[k] = NoneOf(k) THEN dct[k] ELSE merge_dct[k] ]

get_property(ms, property) == ms[property]

\* dict.copy(): a new dictionary holding the same values, so the nested
\* point dictionary is shared with master_state
copy(d) == [ theta |-> d.theta, point |-> PointRef ]

\* the value a stored dictionary has now
Deref(v, ms) ==
    IF v = NonePose THEN v
    ELSE IF v.point = PointRef THEN [ theta |-> v.theta, point |-> ms["pose"].point ]
    ELSE v

\* mutant: previous is not filled in on the first observation
_update_history_no_backfill(h, property, ms) ==
    LET value == get_property(ms, property)
        current == IF property = "pose" /\ value # NonePose THEN copy(value) ELSE value
    IN  [ h EXCEPT ![property] = [ current |-> current, previous |-> h[property].current ] ]

_update_history(h, property, ms) ==
    LET value == get_property(ms, property)
        current == IF property = "pose" /\ value # NonePose THEN copy(value) ELSE value
        prev == h[property].current
        previous == IF prev = NoneOf(property) THEN current ELSE prev
    IN  [ h EXCEPT ![property] = [ current |-> current, previous |-> previous ] ]

changed(h, property, ms) ==
    IF property = "pose"
    THEN Deref(h[property].current, ms) # Deref(h[property].previous, ms)
    ELSE h[property].current # h[property].previous

zero_coords(theta) == [ x |-> 0, y |-> 0, theta |-> theta ]

co_ords(ms) ==
    LET pose == get_property(ms, "pose")
    IN  IF pose # NonePose
        THEN [ x |-> pose.point.y, y |-> pose.point.x, theta |-> pose.theta ]
        ELSE zero_coords(180)

\* minutes of mission run time derived from mssnStrtTm; elapsed is the
\* wall-clock reading (datetime.now() - start) // 60
calc_mssM(ms, elapsed) ==
    LET start_time == get_property(ms, "mssnStrtTm")
    IN  IF start_time # NoneNum /\ start_time # 0 THEN elapsed ELSE NoneNum

mssnM(ms, elapsed) ==
    LET mssM == get_property(ms, "mssnM")
        run_time == calc_mssM(ms, elapsed)
    IN  IF mssM = NoneNum \/ mssM = 0
        THEN (IF run_time # NoneNum /\ run_time # 0 THEN run_time ELSE mssM)
        ELSE mssM

\* a number (or None) compared with the str "100"
NumEqualsStr(n, str) == FALSE

----------------------------------------------------------------------------
(* Roomba._update_flags: runs on the state the update starts in *)

_update_flags(f, state, ms) ==
    LET bin_full == Truthy(get_property(ms, "bin_full"))
        tanklvl == get_property(ms, "tankLvl")
        f1 == IF ~bin_full THEN f \ { "bin_full" } ELSE f
        f2 == IF tanklvl # NoneNum
              THEN (IF tanklvl < 100 THEN f1 \cup { "tank_low" } ELSE f1 \ { "tank_low" })
              ELSE f1
    IN  IF state = ROOMBA_STATES["charge"] THEN f2 \ { "battery_low", "stuck" }
        ELSE IF state = ROOMBA_STATES["recharge"] THEN f2 \ { "battery_low", "stuck" }
        ELSE IF state = ROOMBA_STATES["run"] THEN f2 \ { "stuck", "new_mission" }
        ELSE IF state = ROOMBA_STATES["new"] THEN { "new_mission" }
        ELSE IF state = ROOMBA_STATES["stuck"] THEN f2 \cup { "stuck" }
        ELSE IF state = ROOMBA_STATES["cancelled"] THEN f2 \cup { "cancelled" }
        ELSE IF state = ROOMBA_STATES["hmMidMsn"]
             THEN (IF bin_full THEN f2 \cup { "bin_full" } ELSE f2 \cup { "battery_low" })
        ELSE f2

----------------------------------------------------------------------------
(* mapping/math_helpers.py, on exact rationals << numerator, denominator >> *)

\* mutant: the value is returned unbounded
clamp_unbounded(num, min_value, max_value) == num

clamp(num, min_value, max_value) ==
    LET m == IF num < max_value THEN num ELSE max_value
    IN  IF m > min_value THEN m ELSE min_value

\* cos and sin of the map angles the model uses (multiples of 90 degrees)
Cos(angle) == IF angle = 0 THEN 1 ELSE IF angle = 180 THEN 0 - 1 ELSE 0
Sin(angle) == IF angle = 90 THEN 1 ELSE IF angle = 270 THEN 0 - 1 ELSE 0

rotate(x, y, angle, invert_x, invert_y) ==
    LET xx == x * Cos(angle) - y * Sin(angle)
        yy == x * Sin(angle) + y * Cos(angle)
    IN  << IF invert_x THEN x - (xx - x) ELSE xx,
           IF invert_y THEN y - (yy - y) ELSE yy >>

interpolate(value, in_range, out_range) ==
    LET inv1 == in_range[1] > in_range[2]
        in1 == IF inv1 THEN << in_range[2], in_range[1] >> ELSE in_range
        inv2 == out_range[1] > out_range[2]
        in2 == IF inv2 THEN << out_range[2], out_range[1] >> ELSE in1
        invert == (inv1 /\ ~inv2) \/ (~inv1 /\ inv2)
        v == clamp(value, in2[1], in2[2])
        num == (v - in2[1]) * (out_range[2] - out_range[1])
        den == in2[2] - in2[1]
    IN  IF invert THEN << out_range[2] * den - num, den >> ELSE << num, den >>

\* int() of a rational: truncation towards zero
int(q) ==
    IF q[1] >= 0 THEN q[1] \div q[2] ELSE 0 - ((0 - q[1]) \div q[2])

RECURSIVE isqrt(_, _, _)
isqrt(n, lo, hi) ==
    IF lo >= hi THEN lo
    ELSE LET mid == (lo + hi + 1) \div 2
         IN  IF mid * mid <= n THEN isqrt(n, mid, hi) ELSE isqrt(n, lo, mid - 1)

\* int(math.sqrt(n))
int_sqrt(n) == isqrt(n, 0, IF n < 46340 THEN n ELSE 46340)

----------------------------------------------------------------------------
(* RoombaMapper *)

HAVE_PIL == TRUE

\* cap.get("pose", False) of the capability dictionary
cap_get_pose(cap) == cap = "{pose: 1}"

_map_distance(pos1, pos2) ==
    int_sqrt((pos2[1] - pos1[1]) * (pos2[1] - pos1[1])
             + (pos2[2] - pos1[2]) * (pos2[2] - pos1[2]))

\* RoombaMap._validate_angle, for a number: the angle brought into [0, 360)
_validate_angle(value) ==
    LET v == value % 360
    IN  IF v < 0 THEN v + 360 ELSE v

\* the remainder that keeps the sign of the dividend, as math.fmod does
fmod(a, n) == IF a < 0 THEN 0 - ((0 - a) % n) ELSE a % n

\* mutant: the remainder keeps the sign of the sum and is not adjusted
_img_theta_signed(angle, theta) == fmod(angle + theta + 180, 360)

\* the last step of _map_coord_to_image_coord: "adjust theta"
_img_theta(angle, theta) ==
    LET img_theta == (angle + theta + 180) % 360
    IN  IF img_theta < 0 THEN img_theta + 360 ELSE img_theta

_map_coord_to_image_coord(coord, map) ==
    LET r == rotate(coord.x, coord.y, map.angle,
                    map.coords_start[1] > map.coords_end[1],
                    map.coords_start[2] < map.coords_end[2])
        img_x == interpolate(r[1], << map.coords_start[1], map.coords_end[1] >>,
                             << 0, map.img_width - 1 >>)
        img_y == interpolate(r[2], << map.coords_start[2], map.coords_end[2] >>,
                             << 0, map.img_height - 1 >>)
    IN  [ x |-> int(img_x), y |-> int(img_y),
          theta |-> _img_theta(map.angle, coord.theta) ]

\* The mapper's fields, as a record m:
\*   enabled, to_skip, skipped, history, translated
mapper_init ==
    [ enabled |-> FALSE, to_skip |-> DEFAULT_MAP_SKIP_POINTS, skipped |-> 0,
      history |-> << >>, translated |-> << >> ]

\* the fields reset_map assigns
_reset_fields == { "enabled", "to_skip", "skipped", "history", "translated" }

\* reset_map, once self.roomba.cap.get has returned
reset_map(m, cap) ==
    LET fields == [ enabled |-> cap_get_pose(cap) /\ HAVE_PIL,
                    to_skip |-> DEFAULT_MAP_SKIP_POINTS,
                    skipped |-> 0, history |-> << >>, translated |-> << >> ]
    IN  [ k \in DOMAIN m |-> IF k \in _reset_fields THEN fields[k] ELSE m[k] ]

\* mutant: the filter lacks the zero-pose test of the running state
_filter_position_keeps_zero(h, state, ms) ==
    LET position == IF changed(h, "pose", ms) THEN co_ords(ms) ELSE NonePose
    IN  IF state = ROOMBA_STATES["charge"] THEN NonePose
        ELSE IF state = ROOMBA_STATES["evac"] THEN NonePose
        ELSE position

\* the state filter of _update_state: the position the pipeline considers,
\* or NonePose when there is none
_filter_position(h, state, ms) ==
    LET position == IF changed(h, "pose", ms) THEN co_ords(ms) ELSE NonePose
    IN  IF state = ROOMBA_STATES["charge"] THEN NonePose
        ELSE IF state = ROOMBA_STATES["evac"] THEN NonePose
        ELSE IF state = ROOMBA_STATES["completed"] THEN position
        ELSE IF state = ROOMBA_STATES["run"]
             THEN (IF co_ords(ms) = zero_coords(0) THEN NonePose ELSE position)
        ELSE position

_max_distance == DEFAULT_MAP_MAX_ALLOWED_DISTANCE

\* mutant: the no-motion check is missing
_rejects_distance_only(old, position) ==
    _map_distance(<< old.x, old.y >>, << position.x, position.y >>) > _max_distance

\* the no-motion and distance checks against the last recorded position
_rejects(old, position) ==
    \/ << old.x, old.y >> = << position.x, position.y >>
    \/ _map_distance(<< old.x, old.y >>, << position.x, position.y >>) > _max_distance

\* mutant: the position is appended to the raw history alone
_append_position_raw_only(m, position) ==
    [ m EXCEPT !.history = Append(m.history, position) ]

\* the two appends that end _update_state
_append_position(m, position) ==
    [ m EXCEPT !.history = Append(m.history, position),
               !.translated = Append(m.translated,
                                     _map_coord_to_image_coord(position, DefaultMap)) ]

_update_state(m, h, state, ms) ==
    LET position == _filter_position(h, state, ms)
    IN  IF position = NonePose THEN m
        ELSE IF m.skipped < m.to_skip THEN [ m EXCEPT !.skipped = m.skipped + 1 ]
        ELSE IF Len(m.history) > 0 /\ _rejects(m.history[Len(m.history)], position) THEN m
        ELSE _append_position(m, position)

\* an image: the set of layers composed into it; _base_rendered_map is the
\* blank image of _initialize_map
_base_rendered_map == { }

\* RoombaPosition(None, None, None)
NoImagePos == [ x |-> NoneNum, y |-> NoneNum, theta |-> NoneNum ]

docked(state) ==
    state \in { ROOMBA_STATES["charge"], ROOMBA_STATES["recharge"],
                ROOMBA_STATES["dockend"], ROOMBA_STATES["evac"] }

origin_image_pos(map) == _map_coord_to_image_coord(zero_coords(180), map)

\* the IndexError of an empty history is caught
roomba_image_pos(state, translated, map) ==
    IF docked(state) THEN _map_coord_to_image_coord(zero_coords(180), map)
    ELSE IF Len(translated) > 0 THEN translated[Len(translated)]
    ELSE NoImagePos

_draw_vacuum_path(base, translated) ==
    IF Len(translated) > 1 THEN base \cup { "path" } ELSE base

\* truth value of a coordinate: neither None nor 0
TruthyNum(n) == n # NoneNum /\ n # 0

\* the body of _draw_roomba: the layers it composes onto base
_draw_roomba(base, state, flags, translated, map) ==
    LET pos == roomba_image_pos(state, translated, map)
        shown == TruthyNum(pos.x) /\ TruthyNum(pos.y)
        problem_icon ==
            IF "stuck" \in flags THEN "error"
            ELSE IF "cancelled" \in flags THEN "cancelled"
            ELSE IF "bin_full" \in flags THEN "bin_full"
            ELSE IF "battery_low" \in flags THEN "battery_low"
            ELSE IF "tank_low" \in flags THEN "tank_low"
            ELSE None
    IN  base \cup (IF shown THEN { "roomba" } ELSE { }) \cup { "home" }
             \cup (IF shown /\ problem_icon # None THEN { problem_icon } ELSE { })

\* the parameters of _draw_roomba, after self
_draw_roomba_parameters == << "base", "render_params" >>

\* _render_map passes _draw_roomba the arguments << base >>; a call whose
\* arguments do not fill the parameters raises TypeError before the body runs
_render_map(m, state, flags) ==
    LET base == _draw_vacuum_path(_base_rendered_map, m.translated)
        arguments == << base >>
    IN  IF Len(arguments) # Len(_draw_roomba_parameters)
        THEN [ m EXCEPT !.renders = m.renders + 1, !.raised = "TypeError" ]
        ELSE [ m EXCEPT !.renders = m.renders + 1,
                        !.rendered = _draw_roomba(base, state, flags, m.translated,
                                                  DefaultMap) ]

update_map(m, h, state, ms, force_redraw, flags) ==
    IF ~m.enabled THEN m
    ELSE IF (changed(h, "pose", ms) \/ changed(h, "phase", ms) \/ force_redraw) /\ m.enabled
         THEN (IF state # None
               THEN _render_map(_update_state(m, h, state, ms), state, flags)
               ELSE m)
    ELSE m

----------------------------------------------------------------------------
(* Roomba._update_state_machine *)

\* mutant: the first test of the chain looks for the label "resume"
_starts_mission_on_resume(state, phase) ==
    state = ROOMBA_STATES["charge"] /\ phase = "resume"

\* the first test of the chain: a mission starts
_starts_mission(state, phase) ==
    state = ROOMBA_STATES["charge"] /\ phase = "run"

\* mutant: the bin test is inverted
_pauses_on_bin_not_full(state, phase, bin_full) ==
    state = ROOMBA_STATES["recharge"] /\ phase = "charge" /\ ~Truthy(bin_full)

\* the test that pauses a recharge on a full bin
_pauses_on_bin_full(state, phase, bin_full) ==
    state = ROOMBA_STATES["recharge"] /\ phase = "charge" /\ Truthy(bin_full)

\* mutant: a phase the table lacks is taken for "stop"
_map_phase_or_stopped(phase) ==
    IF phase \notin StateKeys THEN ROOMBA_STATES["stop"] ELSE ROOMBA_STATES[phase]

\* the last branch of the chain: the table's state of the phase, None for a
\* phase the table lacks
_map_phase(phase) ==
    IF phase \notin StateKeys THEN None ELSE ROOMBA_STATES[phase]

\* the if/elif chain on current_state and phase: the new state, whether
\* current_mission was set to None, and whether reset_map is called
_transition(state, phase, bin_full, batPct) ==
    LET RS == ROOMBA_STATES
        to(st) == [ state |-> st, cleared |-> FALSE, reset |-> FALSE ]
    IN  IF _starts_mission(state, phase)
        THEN [ state |-> RS["new"], cleared |-> FALSE, reset |-> TRUE ]
        ELSE IF state = RS["run"] /\ phase = "hmMidMsn" THEN to(RS["dock"])
        ELSE IF state = RS["dock"] /\ phase = "charge" THEN to(RS["recharge"])
        ELSE IF _pauses_on_bin_full(state, phase, bin_full) THEN to(RS["pause"])
        ELSE IF state = RS["run"] /\ phase = "charge" THEN to(RS["recharge"])
        ELSE IF state = RS["recharge"] /\ phase = "run" THEN to(RS["pause"])
        ELSE IF state = RS["pause"] /\ phase = "charge" /\ ~NumEqualsStr(batPct, "100")
             THEN [ state |-> RS["pause"], cleared |-> TRUE, reset |-> FALSE ]
        ELSE IF state = RS["charge"] /\ phase = "charge" /\ ~NumEqualsStr(batPct, "100")
             THEN [ state |-> state, cleared |-> TRUE, reset |-> FALSE ]
        ELSE IF (state = RS["stop"] \/ state = RS["pause"]) /\ phase = "hmUsrDock"
             THEN to(RS["cancelled"])
        ELSE IF (state = RS["hmUsrDock"] \/ state = RS["cancelled"]) /\ phase = "charge"
             THEN to(RS["dockend"])
        ELSE IF state = RS["hmPostMsn"] /\ phase = "charge" THEN to(RS["dockend"])
        ELSE IF state = RS["dockend"] /\ phase = "charge" THEN to(RS["charge"])
        ELSE to(_map_phase(phase))

\* mutant: the try block ahead of the chain is missing
_cancel_never(state, phase, mssM) == state

\* the try block ahead of the chain
_cancel_without_minutes(state, phase, mssM) ==
    IF /\ mssM = NoneNum
       /\ phase = "charge"
       /\ (state = ROOMBA_STATES["pause"] \/ state = ROOMBA_STATES["recharge"])
    THEN ROOMBA_STATES["cancelled"]
    ELSE state

\* mutant: the guard tests the phase alone
_not_observed_phase_only(phase, mission) == phase = None

\* the guard on the two tracked properties
_not_observed(phase, mission) == phase = None \/ mission = None

\* r is the Roomba with its mapper:
\*   [ms, h, flags, state, m] plus resets, the reset_map calls of the update

\* mutant: the state is never reported as changed
_state_changed_never(current_mission, state) == FALSE

\* the argument of update_map: current_mission != self.current_state, where
\* current_mission is the state the update began in, or None where a branch
\* of the chain has set it so
_state_changed(current_mission, state) == current_mission # state

\* lines 660-773: the update once both properties have been observed; h1 is
\* the history as updated, t the outcome of the chain
_apply_transition(r, h1, t) ==
    LET current_mission == IF t.cleared THEN None ELSE r.state
        cap == get_property(r.ms, "cap")
        \* reset_map starts with self.roomba.cap.get: AttributeError on None
        failed == t.reset /\ cap = None
        m1 == IF t.reset /\ ~failed THEN reset_map(r.m, cap)
              ELSE IF failed THEN [ r.m EXCEPT !.raised = "AttributeError" ]
              ELSE r.m
        force_redraw == _state_changed(current_mission, t.state)
    IN  [ r EXCEPT !.h = h1,
                   !.state = t.state,
                   !.m = IF ~failed /\ t.state # None
                         THEN update_map(m1, h1, t.state, r.ms, force_redraw, r.flags)
                         ELSE m1,
                   !.resets = IF t.reset THEN 1 ELSE 0,
                   !.redraw = IF failed \/ t.state = None THEN None
                              ELSE IF force_redraw THEN "True" ELSE "False" ]

_update_state_machine_with(r, h1, elapsed) ==
    LET mission == h1["cycle"].current
        phase == h1["phase"].current
    IN  IF _not_observed(phase, mission) THEN [ r EXCEPT !.h = h1, !.resets = 0 ]
        ELSE _apply_transition(r, h1,
                 _transition(_cancel_without_minutes(r.state, phase, mssnM(r.ms, elapsed)),
                             phase, get_property(r.ms, "bin_full"),
                             get_property(r.ms, "batPct")))

_update_state_machine(r, elapsed) ==
    _update_state_machine_with(
        [ r EXCEPT !.flags = _update_flags(r.flags, r.state, r.ms) ],
        _update_history(
            _update_history(_update_history(r.h, "cycle", r.ms), "phase", r.ms),
            "pose", r.ms),
        elapsed)

----------------------------------------------------------------------------
(* Roomba.on_message, for a decoded fragment f; elapsed is the clock reading *)

\* the docstring's mid mission recharge, run -> hmMidMsn -> charge -> run,
\* followed over the phases that the updates meet: the stage after a phase
mid_mission_recharge(stage, phase) ==
    IF phase = "run"
    THEN (IF stage = "charge" THEN "resumed" ELSE "run")
    ELSE IF phase = "hmMidMsn" /\ stage \in { "run", "resumed", "hmMidMsn" } THEN "hmMidMsn"
    ELSE IF phase = "charge" /\ stage \in { "hmMidMsn", "charge" } THEN "charge"
    ELSE "none"

\* no helper has been called, and the last message was decoded
NoCall == [ fn |-> "none" ]

on_message(f, elapsed) ==
    LET r0 == [ ms |-> dict_merge(master_state, f), h |-> _history, flags |-> _flags,
                state |-> current_state, resets |-> 0, redraw |-> None,
                m |-> [ enabled |-> map_enabled, to_skip |-> _points_to_skip,
                        skipped |-> _points_skipped, history |-> mapper_history,
                        translated |-> _history_translated,
                        rendered |-> _rendered_map, renders |-> 0, raised |-> None ] ]
    IN  \E r \in { _update_state_machine(r0, elapsed) } :
        /\ Len(r.m.history) <= MaxPath
        /\ master_state' = r.ms
        /\ _history' = r.h
        /\ _flags' = r.flags
        /\ current_state' = r.state
        /\ map_enabled' = r.m.enabled
        /\ _points_to_skip' = r.m.to_skip
        /\ _points_skipped' = r.m.skipped
        /\ mapper_history' = r.m.history
        /\ _history_translated' = r.m.translated
        /\ reset_calls' = r.resets
        /\ entry_state' = current_state
        /\ log' = IF nmsg < MaxLog THEN Append(log, f) ELSE << >>
        /\ nmsg' = IF nmsg <= MaxLog THEN nmsg + 1 ELSE nmsg
        /\ _rendered_map' = r.m.rendered
        /\ render_calls' = r.m.renders
        /\ raised' = r.m.raised
        /\ update_map_arg' = r.redraw
        /\ recharge_stage' = mid_mission_recharge(recharge_stage, r.ms["phase"])
        /\ call' = NoCall
        /\ UNCHANGED conn_vars

\* a payload as the remote client delivers it: the bytes of a JSON object,
\* bytes that are not UTF-8, or text that is not JSON
Decodable(f) == [ kind |-> "object", value |-> f ]
UndecodablePayloads == { [ kind |-> "not_utf8" ], [ kind |-> "not_json" ] }

\* json.loads(payload.decode("utf-8")) inside try/except ValueError:
\* json_data keeps its initial None when decoding raises
json_loads(payload) ==
    IF payload.kind = "object"
    THEN [ isNone |-> FALSE, value |-> payload.value ]
    ELSE [ isNone |-> TRUE ]

\* dict(json_data): None is not iterable
dict(json_data) ==
    IF json_data.isNone
    THEN [ raised |-> "TypeError" ]
    ELSE [ raised |-> None, value |-> json_data.value ]

\* Roomba._decode_payload: return formatted_data, dict(json_data)
_decode_payload(payload) == dict(json_loads(payload))

\* Roomba.on_message, for a payload: the exception of _decode_payload leaves
\* the handler before dict_merge
on_message_payload(payload, elapsed) ==
    \E decoded \in { _decode_payload(payload) } :
        IF decoded.raised # None
        THEN /\ raised' = decoded.raised
             /\ call' = [ fn |-> "on_message", payload |-> payload.kind ]
             /\ UNCHANGED << master_state, _history, _flags, current_state,
                             map_enabled, _points_to_skip, _points_skipped,
                             mapper_history, _history_translated, reset_calls,
                             entry_state, log, nmsg, _rendered_map, render_calls,
                             update_map_arg, recharge_stage >>
             /\ UNCHANGED conn_vars
        ELSE on_message(decoded.value, elapsed)

\* the threads: two callers of the public methods, and Roomba._thread, whose
\* target is periodic_connection
Callers == { "main", "user" }
LoopThread == "roombapy"
Threads == Callers \cup { LoopThread }

\* the callbacks register_on_disconnect_callback has registered
on_disconnect_callbacks == << "callback1", "callback2" >>

\* the connection fields after Roomba.__init__(remote_client, continuous)
InitConnection(is_continuous) ==
    /\ continuous = is_continuous
    /\ stop_connection = FALSE
    /\ periodic_connection_running = FALSE
    /\ roomba_connected = FALSE
    /\ client_error = None
    /\ thread_started = FALSE
    /\ pc = [ t \in Threads |-> "idle" ]
    /\ link = "down"
    /\ callback_log = << >>
    /\ loop_disconnects = [ t \in Threads |-> 0 ]
    /\ caller_error = [ t \in Threads |-> None ]
    /\ attempted = [ t \in Threads |-> FALSE ]

\* the telemetry fields after Roomba.__init__
InitTelemetry ==
    /\ master_state = EmptyDict
    /\ _history = [ p \in { "cycle", "phase", "pose" } |->
                      [ current |-> NoneOf(p), previous |-> NoneOf(p) ] ]
    /\ _flags = { }
    /\ current_state = None
    /\ map_enabled = mapper_init.enabled
    /\ _points_to_skip = mapper_init.to_skip
    /\ _points_skipped = mapper_init.skipped
    /\ mapper_history = mapper_init.history
    /\ _history_translated = mapper_init.translated
    /\ reset_calls = 0
    /\ entry_state = None
    /\ log = << >>
    /\ nmsg = 0
    /\ call = NoCall
    /\ _rendered_map = _base_rendered_map
    /\ render_calls = 0
    /\ raised = None
    /\ update_map_arg = None
    /\ recharge_stage = "none"

\* the state after Roomba.__init__, with the default continuous=True
Init == InitTelemetry /\ InitConnection(TRUE)

----------------------------------------------------------------------------
(* Roomba: connect, disconnect and the periodic connection loop.  Each       *)
(* action is one step of one thread: a read or a write of a shared field,    *)
(* or a call of the remote client.                                          *)

\* the thread leaves the method it runs
returned(t) == IF t = LoopThread THEN "finished" ELSE "idle"

\* remote_client.connect() that succeeded, seen from the remote client
link_connect(l) == IF l = "down" THEN "connecting" ELSE l
\* remote_client.disconnect(), seen from the remote client
link_disconnect(l) == IF l = "down" THEN l ELSE "closing"

\* mutant: the callbacks are not called
on_disconnect_body_silent(error) ==
    /\ roomba_connected' = FALSE
    /\ client_error' = error
    /\ callback_log' = << >>

\* the body of Roomba.on_disconnect(error)
on_disconnect_body(error) ==
    /\ roomba_connected' = FALSE
    /\ client_error' = error
    /\ callback_log' =
          IF error # None
          THEN [ i \in DOMAIN on_disconnect_callbacks |->
                   [ callback |-> on_disconnect_callbacks[i], error |-> error ] ]
          ELSE << >>

\* connect(), the guard: return when connected or when the loop runs
connect(t) ==
    /\ t \in Callers
    /\ pc[t] = "idle"
    /\ pc' = [ pc EXCEPT ![t] = IF roomba_connected \/ periodic_connection_running
                                THEN "idle"
                                ELSE IF continuous THEN "connect_connect"
                                ELSE "connect_start" ]
    /\ caller_error' = [ caller_error EXCEPT ![t] = None ]
    /\ UNCHANGED << continuous, stop_connection, periodic_connection_running,
                    roomba_connected, client_error, thread_started, link,
                    callback_log, loop_disconnects >>
    /\ UNCHANGED << telemetry_vars, call, attempted >>

\* connect(), continuous: self._connect() raises when the attempt fails
connect_connect(t, is_connected) ==
    /\ pc[t] = "connect_connect"
    /\ pc' = [ pc EXCEPT ![t] = "idle" ]
    /\ link' = IF is_connected THEN link_connect(link) ELSE link
    /\ caller_error' =
          [ caller_error EXCEPT ![t] = IF is_connected THEN None
                                       ELSE "RoombaConnectionError" ]
    /\ UNCHANGED << continuous, stop_connection, periodic_connection_running,
                    roomba_connected, client_error, thread_started,
                    callback_log, loop_disconnects >>
    /\ UNCHANGED << telemetry_vars, call, attempted >>

\* connect(), periodic: self._thread.start(); a started thread raises
\* RuntimeError
connect_start(t) ==
    /\ pc[t] = "connect_start"
    /\ thread_started' = TRUE
    /\ pc' = IF thread_started THEN [ pc EXCEPT ![t] = "idle" ]
             ELSE [ pc EXCEPT ![t] = "idle", ![LoopThread] = "pc_check" ]
    /\ caller_error' =
          [ caller_error EXCEPT ![t] = IF thread_started THEN "RuntimeError" ELSE None ]
    /\ UNCHANGED << continuous, stop_connection, periodic_connection_running,
                    roomba_connected, client_error, link, callback_log,
                    loop_disconnects >>
    /\ UNCHANGED << telemetry_vars, call, attempted >>

\* disconnect()
disconnect(t) ==
    /\ t \in Callers
    /\ pc[t] = "idle"
    /\ IF continuous
       THEN link' = link_disconnect(link) /\ UNCHANGED stop_connection
       ELSE stop_connection' = TRUE /\ UNCHANGED link
    /\ UNCHANGED << continuous, periodic_connection_running, roomba_connected,
                    client_error, thread_started, pc, callback_log,
                    loop_disconnects, caller_error >>
    /\ UNCHANGED << telemetry_vars, call, attempted >>

\* a caller invokes periodic_connection() itself
periodic_connection(t) ==
    /\ t \in Callers
    /\ pc[t] = "idle"
    /\ ~continuous
    /\ pc' = [ pc EXCEPT ![t] = "pc_check" ]
    /\ caller_error' = [ caller_error EXCEPT ![t] = None ]
    /\ UNCHANGED << continuous, stop_connection, periodic_connection_running,
                    roomba_connected, client_error, thread_started, link,
                    callback_log, loop_disconnects >>
    /\ UNCHANGED << telemetry_vars, call, attempted >>

\* periodic_connection, the guard: where the thread goes after reading the flag
pc_check_next(running) == IF running THEN "return" ELSE "pc_set"

\* periodic_connection: if self.periodic_connection_running: return
pc_check(t) ==
    /\ pc[t] = "pc_check"
    /\ pc' = [ pc EXCEPT ![t] =
                 IF pc_check_next(periodic_connection_running) = "return"
                 THEN returned(t) ELSE "pc_set" ]
    /\ loop_disconnects' = [ loop_disconnects EXCEPT ![t] = 0 ]
    /\ UNCHANGED << continuous, stop_connection, periodic_connection_running,
                    roomba_connected, client_error, thread_started, link,
                    callback_log, caller_error >>
    /\ attempted' = [ attempted EXCEPT ![t] = FALSE ]
    /\ UNCHANGED << telemetry_vars, call >>

\* periodic_connection: self.periodic_connection_running = True
pc_set(t) ==
    /\ pc[t] = "pc_set"
    /\ periodic_connection_running' = TRUE
    /\ pc' = [ pc EXCEPT ![t] = "pc_while" ]
    /\ UNCHANGED << continuous, stop_connection, roomba_connected, client_error,
                    thread_started, link, callback_log, loop_disconnects,
                    caller_error >>
    /\ UNCHANGED << telemetry_vars, call, attempted >>

\* mutant: the loop does not look at the stop flag
pc_while_next_ignores_stop(stop) == "pc_connect"

\* periodic_connection, the loop condition: where the thread goes after
\* reading the stop flag
pc_while_next(stop) == IF ~stop THEN "pc_connect" ELSE "pc_disconnect"

\* periodic_connection: while not self.stop_connection
pc_while(t) ==
    /\ pc[t] = "pc_while"
    /\ pc' = [ pc EXCEPT ![t] = pc_while_next(stop_connection) ]
    /\ UNCHANGED << continuous, stop_connection, periodic_connection_running,
                    roomba_connected, client_error, thread_started, link,
                    callback_log, loop_disconnects, caller_error >>
    /\ UNCHANGED << telemetry_vars, call, attempted >>

\* periodic_connection: where the thread goes after self._connect()
pc_connect_next(is_connected) == IF is_connected THEN "pc_sleep" ELSE "pc_except"

\* periodic_connection: self._connect(), which raises RoombaConnectionError
\* when remote_client.connect() returns False
pc_connect(t, is_connected) ==
    /\ pc[t] = "pc_connect"
    /\ pc' = [ pc EXCEPT ![t] = pc_connect_next(is_connected) ]
    /\ link' = IF is_connected THEN link_connect(link) ELSE link
    /\ UNCHANGED << continuous, stop_connection, periodic_connection_running,
                    roomba_connected, client_error, thread_started,
                    callback_log, loop_disconnects, caller_error >>
    /\ attempted' = [ attempted EXCEPT ![t] = TRUE ]
    /\ UNCHANGED << telemetry_vars, call >>

\* periodic_connection: time.sleep(self.delay) returns
pc_sleep(t) ==
    /\ pc[t] = "pc_sleep"
    /\ pc' = [ pc EXCEPT ![t] = "pc_while" ]
    /\ UNCHANGED << continuous, stop_connection, periodic_connection_running,
                    roomba_connected, client_error, thread_started, link,
                    callback_log, loop_disconnects, caller_error >>
    /\ UNCHANGED << telemetry_vars, call, attempted >>

\* periodic_connection, except: self.periodic_connection_running = False
pc_except(t) ==
    /\ pc[t] = "pc_except"
    /\ periodic_connection_running' = FALSE
    /\ pc' = [ pc EXCEPT ![t] = "pc_on_disconnect" ]
    /\ UNCHANGED << continuous, stop_connection, roomba_connected, client_error,
                    thread_started, link, callback_log, loop_disconnects,
                    caller_error >>
    /\ UNCHANGED << telemetry_vars, call, attempted >>

\* periodic_connection, except: self.on_disconnect(error); return
pc_on_disconnect(t) ==
    /\ pc[t] = "pc_on_disconnect"
    /\ on_disconnect_body("RoombaConnectionError")
    /\ pc' = [ pc EXCEPT ![t] = returned(t) ]
    /\ UNCHANGED << continuous, stop_connection, periodic_connection_running,
                    thread_started, link, loop_disconnects, caller_error >>
    /\ UNCHANGED << telemetry_vars, call, attempted >>

\* periodic_connection, after the loop: self.remote_client.disconnect()
pc_disconnect(t) ==
    /\ pc[t] = "pc_disconnect"
    /\ link' = link_disconnect(link)
    /\ loop_disconnects' = [ loop_disconnects EXCEPT ![t] = loop_disconnects[t] + 1 ]
    /\ pc' = [ pc EXCEPT ![t] = "pc_clear" ]
    /\ UNCHANGED << continuous, stop_connection, periodic_connection_running,
                    roomba_connected, client_error, thread_started,
                    callback_log, caller_error >>
    /\ attempted' = [ x \in Threads |-> FALSE ]
    /\ UNCHANGED << telemetry_vars, call >>

\* periodic_connection, after the loop: self.periodic_connection_running = False
pc_clear(t) ==
    /\ pc[t] = "pc_clear"
    /\ periodic_connection_running' = FALSE
    /\ pc' = [ pc EXCEPT ![t] = returned(t) ]
    /\ UNCHANGED << continuous, stop_connection, roomba_connected, client_error,
                    thread_started, link, callback_log, loop_disconnects,
                    caller_error >>
    /\ UNCHANGED << telemetry_vars, call, attempted >>

\* the body of Roomba.on_connect(error): the error returns before
\* roomba_connected is assigned
on_connect_body(error) ==
    /\ client_error' = error
    /\ roomba_connected' = IF error # None THEN roomba_connected ELSE TRUE

\* the remote client reports the outcome of a connection attempt
on_connect(error) ==
    /\ link = "connecting"
    /\ on_connect_body(error)
    /\ link' = IF error # None THEN "down" ELSE "up"
    /\ UNCHANGED << continuous, stop_connection, periodic_connection_running,
                    thread_started, pc, callback_log, loop_disconnects,
                    caller_error >>
    /\ UNCHANGED << telemetry_vars, call, attempted >>

\* the remote client reports the end of the connection: closed on request
\* (error None) or lost (an error code)
on_disconnect(error) ==
    /\ \/ link = "closing" /\ error = None
       \/ link = "up" /\ error # None
    /\ on_disconnect_body(error)
    /\ link' = "down"
    /\ UNCHANGED << continuous, stop_connection, periodic_connection_running,
                    thread_started, pc, loop_disconnects, caller_error >>
    /\ UNCHANGED << telemetry_vars, call, attempted >>

\* the codes the remote client reports
ClientErrors == { None, "rc" }

loop_step(t) ==
    \/ pc_check(t) \/ pc_set(t) \/ pc_while(t)
    \/ \E is_connected \in BOOLEAN : pc_connect(t, is_connected)
    \/ pc_sleep(t) \/ pc_except(t) \/ pc_on_disconnect(t)
    \/ pc_disconnect(t) \/ pc_clear(t)

NextConnection ==
    \/ \E t \in Callers :
          \/ connect(t) \/ connect_start(t) \/ disconnect(t) \/ periodic_connection(t)
          \/ \E is_connected \in BOOLEAN : connect_connect(t, is_connected)
    \/ \E t \in Threads : loop_step(t)
    \/ \E error \in ClientErrors : on_connect(error) \/ on_disconnect(error)

\* a session of either mode
InitSession == InitTelemetry /\ \E is_continuous \in BOOLEAN : InitConnection(is_continuous)

SpecConnection == InitSession /\ [][NextConnection]_vars

\* Roomba.on_connect(error) as a public callback, called in any state
on_connect_any(error) ==
    /\ on_connect_body(error)
    /\ link' = IF error # None THEN "down" ELSE "up"
    /\ UNCHANGED << continuous, stop_connection, periodic_connection_running,
                    thread_started, pc, callback_log, loop_disconnects,
                    caller_error >>
    /\ UNCHANGED << telemetry_vars, call, attempted >>

\* Roomba.on_disconnect(error) as a public callback, called in any state
on_disconnect_any(error) ==
    /\ on_disconnect_body(error)
    /\ link' = "down"
    /\ UNCHANGED << continuous, stop_connection, periodic_connection_running,
                    thread_started, pc, loop_disconnects, caller_error >>
    /\ UNCHANGED << telemetry_vars, call, attempted >>

\* the methods of the Roomba and its loop, with the two callbacks delivered
\* in any order
NextCallbacks ==
    \/ \E t \in Callers :
          \/ connect(t) \/ connect_start(t) \/ disconnect(t) \/ periodic_connection(t)
          \/ \E is_connected \in BOOLEAN : connect_connect(t, is_connected)
    \/ \E t \in Threads : loop_step(t)
    \/ \E error \in ClientErrors : on_connect_any(error) \/ on_disconnect_any(error)

SpecCallbacks == InitSession /\ [][NextCallbacks]_vars

\* every thread inside periodic_connection keeps running: the scheduler
\* serves it, and connect and sleep return
SpecConnectionFair == SpecConnection /\ \A t \in Threads : WF_vars(loop_step(t))

----------------------------------------------------------------------------
(* Telemetry the device sends *)

Fragment(kv) == [ k \in Props |-> IF k \in DOMAIN kv THEN kv[k] ELSE NoneOf(k) ]

Cycles == { "none", "clean" }
\* phases the docstring of _update_state_machine lists, and one phase the
\* table does not know
Phases ==
    { "charge", "run", "hmMidMsn", "hmPostMsn", "hmUsrDock", "stuck", "stop",
      "pause", "unknown" }

StatusFragments ==
    { Fragment([ cycle |-> c, phase |-> p ]) : c \in Cycles, p \in Phases }
    \cup { Fragment([ cycle |-> c ]) : c \in Cycles }
    \cup { Fragment([ phase |-> p ]) : p \in Phases }

Fragments ==
    StatusFragments
    \cup { Fragment([ bin_full |-> b ]) : b \in { "True", "False" } }
    \cup { Fragment([ mssnM |-> n ]) : n \in { 5 } }
    \cup { Fragment([ cap |-> c ]) : c \in { "{pose: 1}" } }

ElapsedMinutes == { 0 }

Next == \E f \in Fragments, elapsed \in ElapsedMinutes : on_message(f, elapsed)

Spec == Init /\ [][Next]_vars

----------------------------------------------------------------------------
(* The position pipeline under a stream of pose samples *)

\* points around the distance limit: the positions (0,0), (500,1), (501,0)
MapPoints == { [ x |-> 0, y |-> 0 ], [ x |-> 1, y |-> 500 ], [ x |-> 0, y |-> 501 ] }
MapPoses == { [ theta |-> t, point |-> pt ] : t \in { 0, 90 }, pt \in MapPoints }
\* "new" is a key of ROOMBA_STATES, so a phase the chain's last branch maps
MapPhases == { "charge", "run", "stuck", "new" }

MapFragments ==
    { Fragment([ cycle |-> "clean", phase |-> p ]) : p \in MapPhases }
    \cup { Fragment([ cap |-> c ]) : c \in { "{pose: 1}", "{}" } }
    \cup { Fragment([ pose |-> ps ]) : ps \in MapPoses }

NextMap == \E f \in MapFragments, elapsed \in ElapsedMinutes : on_message(f, elapsed)

SpecMap == Init /\ [][NextMap]_vars

----------------------------------------------------------------------------
(* A mission from its start to its end, with pose samples on the way *)

EndPoses ==
    { [ theta |-> t, point |-> pt ] :
      t \in { 0, 90 }, pt \in { [ x |-> 0, y |-> 0 ], [ x |-> 1, y |-> 500 ] } }
\* the phases of a mission that runs, is paused, sent home or completes
EndPhases == { "charge", "run", "pause", "hmUsrDock", "hmPostMsn" }

EndFragments ==
    { Fragment([ cycle |-> "clean", phase |-> p ]) : p \in EndPhases }
    \cup { Fragment([ cycle |-> "none", phase |-> p ]) : p \in { "charge", "hmPostMsn" } }
    \cup { Fragment([ cap |-> c ]) : c \in { "{pose: 1}" } }
    \cup { Fragment([ pose |-> ps ]) : ps \in EndPoses }

NextEnd == \E f \in EndFragments, elapsed \in ElapsedMinutes : on_message(f, elapsed)

SpecEnd == Init /\ [][NextEnd]_vars

----------------------------------------------------------------------------
(* Payloads as they arrive, decodable or not *)

DecodePhases == { "charge", "run", "stop", "stuck" }
DecodeFragments ==
    { Fragment([ cycle |-> "clean", phase |-> p ]) : p \in DecodePhases }
    \cup { Fragment([ cycle |-> "none", phase |-> "charge" ]),
           Fragment([ bin_full |-> "True" ]) }
Payloads == { Decodable(f) : f \in DecodeFragments } \cup UndecodablePayloads

NextDecode ==
    \E payload \in Payloads, elapsed \in ElapsedMinutes :
        on_message_payload(payload, elapsed)

SpecDecode == Init /\ [][NextDecode]_vars

----------------------------------------------------------------------------
(* Every phase of the table, and one the table lacks *)

TablePhases == StateKeys \cup { "unknown" }

PhaseFragments ==
    { Fragment([ cycle |-> "clean", phase |-> p ]) : p \in TablePhases }
    \cup { Fragment([ mssnM |-> n ]) : n \in { 5 } }

NextPhase == \E f \in PhaseFragments, elapsed \in ElapsedMinutes : on_message(f, elapsed)

SpecPhase == Init /\ [][NextPhase]_vars

----------------------------------------------------------------------------
(* The coordinate transform under map definitions and device positions *)

\* (coords_start, coords_end) of one axis: plain, inverted, off-centre
XRanges == { << 0 - 1000, 1000 >>, << 1000, 0 - 1000 >>, << 0, 1000 >> }
YRanges == { << 0 - 1000, 1000 >>, << 500, 0 - 500 >>, << 0, 500 >> }
MapAngles == { 0, 90, 180, 270 }
\* (img_width, img_height): the default canvas and a floorplan's size
ImageSizes == { << DEFAULT_IMG_WIDTH, DEFAULT_IMG_HEIGHT >>, << 640, 480 >> }

MapDefinitions ==
    { [ coords_start |-> << xr[1], yr[1] >>, coords_end |-> << xr[2], yr[2] >>,
        angle |-> a, img_width |-> sz[1], img_height |-> sz[2] ] :
      xr \in XRanges, yr \in YRanges, a \in MapAngles, sz \in ImageSizes }

CoordValues == { 0 - 1000, 0 - 500, 0, 1, 500, 1000 }
Coords ==
    { [ x |-> x, y |-> y, theta |-> t ] :
      x \in CoordValues, y \in CoordValues, t \in { 0 - 90, 0, 180 } }

\* one call, from the state in which no helper has been called
translate_coord(map, coord) ==
    /\ call = NoCall
    /\ call' = [ fn |-> "_map_coord_to_image_coord", map |-> map, coord |-> coord,
                 result |-> _map_coord_to_image_coord(coord, map) ]
    /\ UNCHANGED telemetry_vars
    /\ UNCHANGED conn_vars

NextCoord == \E map \in MapDefinitions, coord \in Coords : translate_coord(map, coord)

SpecCoord == Init /\ [][NextCoord]_vars

----------------------------------------------------------------------------
(* Roomba.dict_merge over nested dictionaries.  A value is a leaf or a      *)
(* dictionary; a dictionary is a function from its keys to values.          *)

Leaf(v) == [ kind |-> "leaf", v |-> v ]
Dict(d) == [ kind |-> "dict", d |-> d ]
\* isinstance(value, dict) and isinstance(value, Mapping)
IsDict(value) == value.kind = "dict"

MergeKeys == { "a", "b" }
MergeLeaves == { Leaf(1), Leaf(2) }

\* the dictionaries with keys among MergeKeys and values among the given ones
DictsOver(values) ==
    UNION { [ keys -> values ] : keys \in SUBSET MergeKeys }

\* dictionaries of leaves; dictionaries of leaves and of those; and
\* dictionaries that hold one of the latter under "a"
FlatDicts == DictsOver(MergeLeaves)
NestedDicts == DictsOver(MergeLeaves \cup { Dict(d) : d \in FlatDicts })
DeepDicts == { [ k \in { "a" } |-> Dict(d) ] : d \in NestedDicts }
MergeDicts == NestedDicts \cup DeepDicts

\* merge_dct.items(): the keys in the order the dictionary yields them
RECURSIVE items(_)
items(keys) ==
    IF keys = { } THEN << >>
    ELSE LET k == CHOOSE x \in keys : TRUE
         IN  << k >> \o items(keys \ { k })

\* dct[k] = value
setitem(dct, k, value) ==
    [ x \in DOMAIN dct \cup { k } |-> IF x = k THEN value ELSE dct[x] ]

RECURSIVE dict_merge_loop(_, _, _)

\* mutant: dict.update(), which replaces a nested dictionary as a whole
dict_merge_loop_update(dct, merge_dct, keys) ==
    IF keys = << >> THEN dct
    ELSE dict_merge_loop(setitem(dct, Head(keys), merge_dct[Head(keys)]),
                         merge_dct, Tail(keys))

\* the for loop of dict_merge over the items that remain: dct after them
dict_merge_loop(dct, merge_dct, keys) ==
    IF keys = << >> THEN dct
    ELSE LET k == Head(keys)
             merged ==
                 IF k \in DOMAIN dct /\ IsDict(dct[k]) /\ IsDict(merge_dct[k])
                 THEN setitem(dct, k,
                              Dict(dict_merge_loop(dct[k].d, merge_dct[k].d,
                                                   items(DOMAIN merge_dct[k].d))))
                 ELSE setitem(dct, k, merge_dct[k])
         IN  dict_merge_loop(merged, merge_dct, Tail(keys))

\* Roomba.dict_merge(dct, merge_dct): dct as the call leaves it
dict_merge_nested(dct, merge_dct) ==
    dict_merge_loop(dct, merge_dct, items(DOMAIN merge_dct))

\* one call of dict_merge
merge(dct, merge_dct) ==
    /\ call' = [ fn |-> "dict_merge", dct |-> dct, merge_dct |-> merge_dct,
                 result |-> dict_merge_nested(dct, merge_dct) ]
    /\ UNCHANGED telemetry_vars
    /\ UNCHANGED conn_vars

\* one call, from the state in which no helper has been called
NextMerge ==
    /\ call = NoCall
    /\ \E dct \in MergeDicts, merge_dct \in MergeDicts : merge(dct, merge_dct)

SpecMerge == Init /\ [][NextMerge]_vars

----------------------------------------------------------------------------
(* Telemetry that drives the flags: status, bin and tank level *)

FlagPhases == { "charge", "run", "new", "stuck", "hmMidMsn", "hmUsrDock", "pause" }
TankLevels == { 50, 100 }

FlagFragments ==
    { Fragment([ cycle |-> "clean", phase |-> p ]) : p \in FlagPhases }
    \cup { Fragment([ bin_full |-> b ]) : b \in { "True", "False" } }
    \cup { Fragment([ tankLvl |-> n ]) : n \in TankLevels }

NextFlags == \E f \in FlagFragments, elapsed \in ElapsedMinutes : on_message(f, elapsed)

SpecFlags == Init /\ [][NextFlags]_vars

----------------------------------------------------------------------------
(* A mission with a recharge on the way, and pose samples *)

RechargePhases == { "charge", "run", "hmMidMsn" }

RechargeFragments ==
    { Fragment([ cycle |-> "clean", phase |-> p ]) : p \in RechargePhases }
    \cup { Fragment([ cap |-> c ]) : c \in { "{pose: 1}" } }
    \cup { Fragment([ mssnM |-> n ]) : n \in { 5 } }
    \cup { Fragment([ pose |-> ps ]) : ps \in EndPoses }

NextRecharge ==
    \E f \in RechargeFragments, elapsed \in ElapsedMinutes : on_message(f, elapsed)

SpecRecharge == Init /\ [][NextRecharge]_vars

----------------------------------------------------------------------------
(* The image angle under map angles and device headings *)

\* angles as a map definition gives them, in and out of [0, 360)
RawAngles == { 0 - 450, 0 - 90, 0 - 1, 0, 1, 45, 90, 180, 270, 359, 360, 450 }
\* the headings the device can report, and beyond: negative past 180
Thetas == (0 - 400) .. 400

\* the angle step of _map_coord_to_image_coord, for a heading theta and a
\* map whose angle was given as raw_angle
translate_theta(raw_angle, theta) ==
    /\ call' = [ fn |-> "img_theta", raw_angle |-> raw_angle, theta |-> theta,
                 angle |-> _validate_angle(raw_angle),
                 result |-> _img_theta(_validate_angle(raw_angle), theta) ]
    /\ UNCHANGED telemetry_vars
    /\ UNCHANGED conn_vars

\* one call, from the state in which no helper has been called
NextAngle ==
    /\ call = NoCall
    /\ \E raw_angle \in RawAngles, theta \in Thetas : translate_theta(raw_angle, theta)

SpecAngle == Init /\ [][NextAngle]_vars

----------------------------------------------------------------------------
(* RoombaMapper: the registered icon sets and their resolution *)

\* the icon sets RoombaMapper.__init__ registers
mapper_icons == { "default", "m", "j", "s" }

\* add_icon_set: a set without a name is refused, a name registered twice
\* names the later set
add_icon_set(icons, name) == IF name = "" THEN icons ELSE icons \cup { name }

\* the sku of a device that has not reported one
NoneSku == << None >>
\* self._render_params before _initialize_map has assigned it
NoneParams == [ isNone |-> TRUE ]

\* mutant: no icon set of the series is looked up
_series_none(icons, sku) == None

\* self._icons.get(self.roomba.sku[0], None): the set registered under the
\* first letter of the sku
_series(icons, sku) == IF sku[1] \in icons THEN sku[1] ELSE None

\* RoombaMapper._get_icon_set, icon sets standing for their names: the result,
\* the exception raised and whether the diagnostic was logged
_get_icon_set(icons, sku, render_params) ==
    IF sku = NoneSku
    THEN [ raised |-> "TypeError", icon_set |-> None, warned |-> FALSE ]
    ELSE IF sku = << >>
    THEN [ raised |-> "IndexError", icon_set |-> None, warned |-> FALSE ]
    ELSE LET series == _series(icons, sku)
             icon_set == IF series # None THEN series ELSE "default"
         IN  IF render_params # NoneParams /\ render_params.icon_set \notin { None, "" }
             THEN (IF render_params.icon_set \in icons
                   THEN [ raised |-> None, icon_set |-> render_params.icon_set,
                          warned |-> FALSE ]
                   ELSE [ raised |-> None, icon_set |-> icon_set, warned |-> TRUE ])
             ELSE [ raised |-> None, icon_set |-> icon_set, warned |-> FALSE ]

\* names a caller gives add_icon_set, the empty name among them
AddedNames == { "", "custom", "i" }
\* the registry after the constructor and two calls of add_icon_set
IconRegistries ==
    { add_icon_set(add_icon_set(mapper_icons, a), b) : a, b \in AddedNames }
\* the sku as the sequence of its characters: one per series, the empty
\* string, and no sku
Skus == { << "i", "7" >>, << "m", "6" >>, << "j", "7" >>, << "s", "9" >>,
          << "e", "5" >>, << >>, NoneSku }
\* the names a map definition gives for its icon set
MapIconSets == { None, "", "default", "m", "custom", "missing" }
\* self._render_params: None, or parameters with the icon set of the map
RenderParams == { NoneParams } \cup { [ icon_set |-> n ] : n \in MapIconSets }

\* one call of _get_icon_set
resolve(icons, sku, render_params) ==
    /\ call' = [ fn |-> "_get_icon_set", icons |-> icons, sku |-> sku,
                 render_params |-> render_params,
                 result |-> _get_icon_set(icons, sku, render_params) ]
    /\ UNCHANGED telemetry_vars
    /\ UNCHANGED conn_vars

\* one call, from the state in which no helper has been called
NextIcon ==
    /\ call = NoCall
    /\ \E icons \in IconRegistries, sku \in Skus, render_params \in RenderParams :
           resolve(icons, sku, render_params)

SpecIcon == Init /\ [][NextIcon]_vars

----------------------------------------------------------------------------
(* A program started while the device is on a mission *)

\* the phases of "Start program during run": run -> hmPostMsn -> charge
StartPhases == { "run", "hmPostMsn", "charge" }

\* the status as the first full report gives it, with the capabilities of the
\* device, and the pose samples that follow
StartFragments ==
    { Fragment([ cap |-> "{pose: 1}", cycle |-> "clean", phase |-> p ]) : p \in StartPhases }
    \cup { Fragment([ pose |-> ps ]) : ps \in EndPoses }

NextStart == \E f \in StartFragments, elapsed \in ElapsedMinutes : on_message(f, elapsed)

SpecStart == Init /\ [][NextStart]_vars

----------------------------------------------------------------------------
(* A paused device on the dock, reporting its battery *)

\* the status of a mission that is paused, docked and resumed, mission
\* minutes, and battery percentages below and at full charge, as numbers
BatteryFragments ==
    { Fragment([ cycle |-> "clean", phase |-> p ]) : p \in { "pause", "charge", "run" } }
    \cup { Fragment([ mssnM |-> n ]) : n \in { 5 } }
    \cup { Fragment([ batPct |-> n ]) : n \in { 50, 99, 100 } }

NextBattery == \E f \in BatteryFragments, elapsed \in ElapsedMinutes : on_message(f, elapsed)

SpecBattery == Init /\ [][NextBattery]_vars

----------------------------------------------------------------------------
(* Properties of the mission state interpreter (specification Spec) *)

Observed(property) == master_state[property] # NoneOf(property)
FlagSet(flag) == flag \in _flags
HasStatus(f, phase, cycle) == f["phase"] = phase /\ f["cycle"] = cycle

\* C1: while cycle or phase has never been observed in the merged snapshot,
\* the mission state is None after every update.
C1_StateNoneUntilObserved ==
    (~Observed("cycle") \/ ~Observed("phase")) => current_state = None

\* an update has run with one of the two properties observed and the other not
C1_Witness ==
    /\ nmsg > 0
    /\ Observed("phase")
    /\ master_state["phase"] = "run"
    /\ ~Observed("cycle")
    /\ current_state = None

\* the session so far is (phase=charge, cycle=none), (phase=run, cycle=clean)
NewMissionScenario ==
    /\ nmsg = 2
    /\ Len(log) = 2
    /\ HasStatus(log[1], "charge", "none")
    /\ HasStatus(log[2], "run", "clean")

\* C2: from a fresh session, (phase=charge, cycle=none) then (phase=run,
\* cycle=clean) leaves the state at New Mission, and the second update calls
\* reset_map exactly once.
C2_ScenarioEntersNewMission ==
    NewMissionScenario => (current_state = "New Mission" /\ reset_calls = 1)

C2_Witness ==
    NewMissionScenario /\ entry_state = "Charging" /\ current_state = "New Mission"

\* C3: after every update, state New Mission implies the flag new_mission is
\* set.
C3_NewMissionFlagSet ==
    current_state = "New Mission" => FlagSet("new_mission")

\* C4: an update in which cycle changes from a mission name to none (the
\* phase being known) yields Cancelled when the bin-full property is true,
\* else Mission Completed.
C4_CycleEndFinalizes ==
    (/\ Observed("phase")
     /\ _history["cycle"].previous = "clean"
     /\ _history["cycle"].current = "none")
    => current_state = IF Truthy(master_state["bin_full"]) THEN "Cancelled"
                       ELSE "Mission Completed"

\* the update began in Recharging and merged phase=charge with the bin full
RechargingChargeBinFull ==
    /\ entry_state = "Recharging"
    /\ master_state["phase"] = "charge"
    /\ Truthy(master_state["bin_full"])

\* C5 as stated: Recharging, phase=charge and bin full yield Paused.
C5_RechargingBinFullPauses ==
    RechargingChargeBinFull => current_state = "Paused"

\* C5 amended: the same, when a mission-minutes value is available.
C5_RechargingBinFullPausesWithMinutes ==
    (RechargingChargeBinFull /\ \A e \in ElapsedMinutes : mssnM(master_state, e) # NoneNum)
    => current_state = "Paused"

C5_Witness ==
    /\ RechargingChargeBinFull
    /\ master_state["mssnM"] # NoneNum
    /\ current_state = "Paused"

\* C6: after the update that takes Recharging to Paused on phase=charge with
\* the bin full, the flag bin_full is set.
C6_PausedSetsBinFullFlag ==
    (RechargingChargeBinFull /\ current_state = "Paused") => FlagSet("bin_full")

----------------------------------------------------------------------------
(* Properties of the position pipeline (specification SpecMap) *)

AdjacentPairs == { i \in 1 .. Len(mapper_history) : i < Len(mapper_history) }
Last(seq) == seq[Len(seq)]
SameXY(a, b) == a.x = b.x /\ a.y = b.y
SquaredDistance(a, b) == (a.x - b.x) * (a.x - b.x) + (a.y - b.y) * (a.y - b.y)
MapperUnchanged ==
    UNCHANGED << mapper_history, _history_translated, _points_skipped, _points_to_skip >>
\* the last update handed a changed pose to an enabled mapper
SampleArrived == map_enabled /\ changed(_history, "pose", master_state)

\* C7: every update that changes the state to New Mission leaves both path
\* histories empty and the skip counter re-armed.
C7_NewMissionResetsPath ==
    (current_state = "New Mission" /\ entry_state # "New Mission")
    => /\ mapper_history = << >>
       /\ _history_translated = << >>
       /\ _points_skipped = 0
       /\ _points_to_skip = DEFAULT_MAP_SKIP_POINTS

\* C8: no two adjacent entries of the raw path have the same (x, y), and an
\* update that feeds the reading master_state already holds changes neither
\* history.
C8_NoRepeatedPosition ==
    /\ [](\A i \in AdjacentPairs : ~SameXY(mapper_history[i], mapper_history[i + 1]))
    /\ [][\A ps \in MapPoses :
            (master_state["pose"] = ps
             /\ \E e \in ElapsedMinutes : on_message(Fragment([ pose |-> ps ]), e))
            => UNCHANGED << mapper_history, _history_translated >>]_vars

\* a sample at the (x, y) of the last accepted one arrived, past the skipped
\* points and in a state that filters nothing, and was not appended
C8_Witness ==
    /\ SampleArrived
    /\ current_state = "Stuck"
    /\ _points_skipped = _points_to_skip
    /\ Len(mapper_history) > 0
    /\ SameXY(Last(mapper_history), co_ords(master_state))
    /\ Last(mapper_history).theta # co_ords(master_state).theta

\* C9: adjacent entries of the raw path are at most the maximum distance
\* apart: dx*dx + dy*dy <= max*max.
C9_AdjacentWithinMaxDistance ==
    \A i \in AdjacentPairs :
        SquaredDistance(mapper_history[i], mapper_history[i + 1])
            <= _max_distance * _max_distance

\* C10: an update that ends in Running with the zero pose {0, 0, 0} as the
\* current pose changes neither history nor the skip counter.
C10_ZeroPoseDroppedWhenRunning ==
    [][(current_state' = "Running" /\ co_ords(master_state') = zero_coords(0))
       => MapperUnchanged]_vars

\* the zero pose arrived while Running, after the skipped points and within
\* reach of the last accepted position, and the path does not end with it
C10_Witness ==
    /\ SampleArrived
    /\ entry_state = "Running"
    /\ current_state = "Running"
    /\ co_ords(master_state) = zero_coords(0)
    /\ _points_skipped = _points_to_skip
    /\ Len(mapper_history) > 0
    /\ ~_rejects(Last(mapper_history), co_ords(master_state))

ProblemIcons == { "error", "cancelled", "bin_full", "battery_low", "tank_low" }

\* C12: a render made while no pose sample has been accepted since the last
\* reset composes the dock icon and neither the path, nor the device icon, nor
\* an anomaly icon.
C12_EmptyPathRendersDockOnly ==
    (render_calls > 0 /\ mapper_history = << >>)
    => /\ "home" \in _rendered_map
       /\ "path" \notin _rendered_map
       /\ "roomba" \notin _rendered_map
       /\ _rendered_map \cap ProblemIcons = { }

\* the value history holds for the pose, as read after the update
previous_pose == Deref(_history["pose"].previous, master_state)

\* C13: the recorded pose is isolated from the snapshot: an update whose
\* merge changes the point of the pose and not its theta leaves the old
\* point in previous('pose'), and changed('pose') is true.
C13_HistoryIsolatedFromSnapshot ==
    [][(/\ _history["pose"].current # NonePose
        /\ master_state'["pose"].theta = master_state["pose"].theta
        /\ master_state'["pose"].point # master_state["pose"].point)
       => (/\ previous_pose'.point = master_state["pose"].point
           /\ changed(_history', "pose", master_state'))]_vars

\* the properties _update_state_machine hands to _update_history
TrackedProperties == { "cycle", "phase", "pose" }
current(property) == _history[property].current
previous(property) == _history[property].previous

----------------------------------------------------------------------------
(* Properties of the path over a mission (specification SpecEnd) *)

IsPrefix(s, t) == Len(s) <= Len(t) /\ SubSeq(t, 1, Len(s)) = s
\* the update enters New Mission
NewMissionStarts == current_state' = "New Mission" /\ current_state # "New Mission"
\* the update sees the cycle return to none, or enters Mission Completed or
\* Cancelled
MissionEnds ==
    \/ current("cycle") = "clean" /\ current("cycle")' = "none"
    \/ /\ current_state' \in { "Mission Completed", "Cancelled" }
       /\ current_state' # current_state

\* C15: the path is emptied by every update that starts or ends a mission,
\* and every other update leaves the recorded entries in place, appending at
\* most.
C15_PathResetAtMissionBounds ==
    [][/\ (NewMissionStarts \/ MissionEnds)
          => (mapper_history' = << >> /\ _history_translated' = << >>)
       /\ ~(NewMissionStarts \/ MissionEnds)
          => (/\ IsPrefix(mapper_history, mapper_history')
              /\ IsPrefix(_history_translated, _history_translated'))]_vars

----------------------------------------------------------------------------
(* Properties of the coordinate transform (specification SpecCoord) *)

Between(v, a, b) == (a <= v /\ v <= b) \/ (b <= v /\ v <= a)
WithinMap(coord, map) ==
    /\ Between(coord.x, map.coords_start[1], map.coords_end[1])
    /\ Between(coord.y, map.coords_start[2], map.coords_end[2])
Translated == call.fn = "_map_coord_to_image_coord"

\* C11: for a map definition whose start and end differ on each axis and a
\* position within them, the image coordinate lies on the canvas:
\* 0 <= x <= img_width - 1 and 0 <= y <= img_height - 1.
C11_ImageCoordOnCanvas ==
    (Translated /\ WithinMap(call.coord, call.map))
    => /\ 0 <= call.result.x /\ call.result.x <= call.map.img_width - 1
       /\ 0 <= call.result.y /\ call.result.y <= call.map.img_height - 1

\* a position on the far corner of an inverted, rotated map was translated
C11_Witness ==
    /\ Translated
    /\ WithinMap(call.coord, call.map)
    /\ call.map.coords_start[1] > call.map.coords_end[1]
    /\ call.map.angle = 90
    /\ call.coord.x = call.map.coords_start[1]
    /\ call.coord.y = call.map.coords_end[2]

----------------------------------------------------------------------------
(* Properties of the connection lifecycle (specifications SpecConnection    *)
(* and SpecConnectionFair)                                                  *)

\* the positions of a thread inside the connect/sleep loop
InLoop == { "pc_while", "pc_connect", "pc_sleep" }

\* C16: in periodic mode no two threads are inside the connect/sleep loop of
\* periodic_connection at the same time.
C16_AtMostOneLoop ==
    ~continuous => Cardinality({ t \in Threads : pc[t] \in InLoop }) <= 1

\* every registered callback, called once with the error, in order
EachCallbackOnce(error) ==
    [ i \in DOMAIN on_disconnect_callbacks |->
        [ callback |-> on_disconnect_callbacks[i], error |-> error ] ]

\* C17: in periodic mode a thread whose connection attempt failed clears
\* periodic_connection_running, makes no further attempt before it leaves
\* periodic_connection, and leaves it with every registered disconnect
\* callback called exactly once with the error and roomba_connected false.
C17_FailureEndsLoopAndNotifies ==
    [][ \A t \in Threads :
          /\ (pc[t] = "pc_except" /\ pc'[t] # pc[t])
                => /\ pc'[t] = "pc_on_disconnect"
                   /\ ~periodic_connection_running'
          /\ (pc[t] = "pc_on_disconnect" /\ pc'[t] # pc[t])
                => /\ pc'[t] = returned(t)
                   /\ callback_log' = EachCallbackOnce("RoombaConnectionError")
                   /\ client_error' = "RoombaConnectionError"
                   /\ ~roomba_connected' ]_vars

\* the loop thread has left periodic_connection after a failed attempt and
\* the callbacks have been called
C17_Witness ==
    /\ ~continuous
    /\ pc[LoopThread] = "finished"
    /\ loop_disconnects[LoopThread] = 0
    /\ callback_log = EachCallbackOnce("RoombaConnectionError")
    /\ ~periodic_connection_running
    /\ ~roomba_connected

\* C20: once disconnect() has set the stop flag, every thread inside the
\* loop leaves periodic_connection; the flag takes a thread out of the loop
\* only where the loop condition is evaluated, setting it moves no thread,
\* and a thread that left the loop by the flag has called
\* remote_client.disconnect() exactly once and leaves with
\* periodic_connection_running cleared.
C20_CooperativeCancellation ==
    /\ \A t \in Threads :
          (stop_connection /\ pc[t] \in InLoop) ~> (pc[t] = returned(t))
    /\ [][ /\ (stop_connection' # stop_connection) => pc' = pc
           /\ \A t \in Threads :
                 /\ (pc'[t] = "pc_disconnect" /\ pc[t] # "pc_disconnect")
                       => (pc[t] = "pc_while" /\ stop_connection)
                 /\ (pc[t] = "pc_while" /\ pc'[t] # pc[t] /\ stop_connection)
                       => pc'[t] = "pc_disconnect"
                 /\ (pc[t] = "pc_clear" /\ pc'[t] # pc[t])
                       => /\ pc'[t] = returned(t)
                          /\ loop_disconnects'[t] = 1
                          /\ ~periodic_connection_running' ]_vars

\* the loop thread has been stopped by disconnect() after it connected
C20_Witness ==
    /\ ~continuous
    /\ stop_connection
    /\ pc[LoopThread] = "finished"
    /\ loop_disconnects[LoopThread] = 1
    /\ ~periodic_connection_running

----------------------------------------------------------------------------
(* Properties of payload decoding (specification SpecDecode) *)

\* C18: a message whose payload cannot be decoded ends without an exception
\* and leaves master_state, the history, the flags and the mission state as
\* they were, so that the next message meets the state the previous one left.
C18_UndecodableDropped ==
    [][ (call'.fn = "on_message")
          => /\ raised' = None
             /\ UNCHANGED << master_state, _history, _flags, current_state >> ]_vars

----------------------------------------------------------------------------
(* Properties of the phase table (specification SpecPhase) *)

\* the update ended with cycle and phase observed and a phase the table lacks
UnknownPhaseAfter ==
    /\ master_state'["cycle"] # None
    /\ master_state'["phase"] # None
    /\ master_state'["phase"] \notin StateKeys

\* the update began with cycle observed and a phase the table lacks
UnknownPhaseBefore ==
    /\ master_state["cycle"] # None
    /\ master_state["phase"] # None
    /\ master_state["phase"] \notin StateKeys

\* C19 as stated: from every state, an update that ends with a phase the
\* table lacks leaves the mission state None and raises nothing, and the
\* update after it, if it brings a phase of the table, leaves a state that
\* is not None.
C19_UnknownPhaseThenKnown ==
    [][ /\ UnknownPhaseAfter => (current_state' = None /\ raised' = None)
        /\ (UnknownPhaseBefore /\ master_state'["phase"] \in StateKeys)
              => current_state' # None ]_vars

\* the phases the table maps to a state
StatePhases == { k \in StateKeys : ROOMBA_STATES[k] # None }

\* C19, amended: from every state, an update that ends with a phase the
\* table lacks leaves the mission state None and raises nothing, and the
\* update after it, if it brings a phase the table maps to a state (any key
\* but the empty string), leaves a state that is not None.
C19_UnknownPhaseThenStatePhase ==
    [][ /\ UnknownPhaseAfter => (current_state' = None /\ raised' = None)
        /\ (UnknownPhaseBefore /\ master_state'["phase"] \in StatePhases)
              => current_state' # None ]_vars

\* a phase the table maps to a state has followed a phase the table lacks:
\* the update began with the state None and ended with a state
C19_Witness ==
    /\ _history["phase"].previous = "unknown"
    /\ _history["phase"].current \in StatePhases
    /\ entry_state = None
    /\ current_state # None
    /\ nmsg > 2

----------------------------------------------------------------------------
(* Properties of dict_merge (specification SpecMerge) *)

\* the structural merge: maps on both sides are merged key by key, any other
\* value of the fragment replaces the old one, other keys are kept
RECURSIVE StructuralMerge(_, _)
StructuralMerge(old, fragment) ==
    [ k \in DOMAIN old \cup DOMAIN fragment |->
        IF k \notin DOMAIN fragment THEN old[k]
        ELSE IF k \in DOMAIN old /\ IsDict(old[k]) /\ IsDict(fragment[k])
             THEN Dict(StructuralMerge(old[k].d, fragment[k].d))
             ELSE fragment[k] ]

\* the key paths of up to three keys
KeyPaths ==
    { << k >> : k \in MergeKeys }
    \cup { << k, l >> : k \in MergeKeys, l \in MergeKeys }
    \cup { << k, l, m >> : k \in MergeKeys, l \in MergeKeys, m \in MergeKeys }

Missing == [ kind |-> "missing" ]

\* the value at a key path, Missing where the path leads nowhere
RECURSIVE Lookup(_, _)
Lookup(d, path) ==
    IF Head(path) \notin DOMAIN d THEN Missing
    ELSE IF Len(path) = 1 THEN d[Head(path)]
    ELSE IF IsDict(d[Head(path)]) THEN Lookup(d[Head(path)].d, Tail(path))
    ELSE Missing

\* the fragment holds nothing at the path nor at a prefix of it
RECURSIVE NotMentioned(_, _)
NotMentioned(fragment, path) ==
    \/ Head(path) \notin DOMAIN fragment
    \/ /\ Len(path) > 1
       /\ IsDict(fragment[Head(path)])
       /\ NotMentioned(fragment[Head(path)].d, Tail(path))

\* C21: dict_merge leaves dct equal to the structural merge of dct and the
\* fragment, and every key path of dct that the fragment does not mention
\* keeps its value.
C21_DictMergeIsStructuralMerge ==
    call.fn = "dict_merge" =>
        /\ call.result = StructuralMerge(call.dct, call.merge_dct)
        /\ \A path \in KeyPaths :
              (Lookup(call.dct, path) # Missing /\ NotMentioned(call.merge_dct, path))
                  => Lookup(call.result, path) = Lookup(call.dct, path)

\* a call that merged a nested dictionary two levels down, kept a sibling
\* and replaced a leaf
C21_Witness ==
    /\ call.fn = "dict_merge"
    /\ call.dct = [ a |-> Dict([ a |-> Dict([ a |-> Leaf(1), b |-> Leaf(1) ]) ]) ]
    /\ call.merge_dct = [ a |-> Dict([ a |-> Dict([ a |-> Leaf(2) ]) ]) ]
    /\ call.result = [ a |-> Dict([ a |-> Dict([ a |-> Leaf(2), b |-> Leaf(1) ]) ]) ]

----------------------------------------------------------------------------
(* Properties of the flags (specification SpecFlags) *)

\* C22: after every update with cycle and phase observed, state Stuck
\* implies the flag stuck is set and state Cancelled implies the flag
\* cancelled is set.
C22_FlagsFollowResultingState ==
    (Observed("cycle") /\ Observed("phase")) =>
        /\ (current_state = ROOMBA_STATES["stuck"] => FlagSet("stuck"))
        /\ (current_state = ROOMBA_STATES["cancelled"] => FlagSet("cancelled"))

\* C23: after an update whose flag refresh met the state of phase hmMidMsn,
\* the phase still being hmMidMsn, exactly one of bin_full and battery_low
\* is set: bin_full when the bin-full property is true, else battery_low.
C23_MidMissionDockSetsOneFlag ==
    (/\ nmsg > 0
     /\ Observed("cycle")
     /\ master_state["phase"] = "hmMidMsn"
     /\ entry_state = ROOMBA_STATES["hmMidMsn"])
    => IF Truthy(master_state["bin_full"])
       THEN FlagSet("bin_full") /\ ~FlagSet("battery_low")
       ELSE FlagSet("battery_low") /\ ~FlagSet("bin_full")

\* C24: after every update that brings a new tank level, the flag tank_low
\* is set if and only if the tank level is below 100.
C24_TankLowIffBelowFull ==
    [][ (master_state'["tankLvl"] # NoneNum
         /\ master_state'["tankLvl"] # master_state["tankLvl"])
          => (("tank_low" \in _flags') <=> (master_state'["tankLvl"] < 100)) ]_vars

----------------------------------------------------------------------------
(* Properties of the transitions on phase run and out of New Mission         *)
(* (specification Spec)                                                     *)

\* C25: an update that ends with phase run and cycle none leaves the mission
\* state as it was and calls no reset_map.
C25_RunWithoutCycleIsIgnored ==
    [][ (master_state'["phase"] = "run" /\ master_state'["cycle"] = "none"
         /\ current_state # None)
          => (current_state' = current_state /\ reset_calls' = 0) ]_vars

\* C26: an update that begins in New Mission and ends with a phase other than
\* run leaves the state New Mission; no time passes between the updates.
C26_NewMissionHeldUntilRun ==
    [][ (current_state = ROOMBA_STATES["new"]
         /\ Observed("cycle")
         /\ master_state'["phase"] # "run")
          => current_state' = ROOMBA_STATES["new"] ]_vars

----------------------------------------------------------------------------
(* Properties of the redraw signal (specification Spec) *)

\* C27 as stated: whenever an update calls update_map, force_redraw is true
\* exactly when the state after the update differs from the state before.
C27_RedrawIffStateChanged ==
    update_map_arg # None =>
        ((update_map_arg = "True") <=> (current_state # entry_state))

\* the update took a branch that sets current_mission to None: Paused or
\* Charging met phase charge with the battery not reported as the str "100"
RedrawForced ==
    /\ master_state["phase"] = "charge"
    /\ entry_state \in { ROOMBA_STATES["pause"], ROOMBA_STATES["charge"] }
    /\ current_state = entry_state
    /\ ~NumEqualsStr(master_state["batPct"], "100")

\* C27, amended: whenever an update calls update_map, force_redraw is true
\* exactly when the state after the update differs from the state before,
\* or the update kept Paused or Charging on phase charge with batPct not
\* equal to "100".
C27_RedrawIffStateChangedOrForced ==
    update_map_arg # None =>
        ((update_map_arg = "True") <=> (current_state # entry_state \/ RedrawForced))

\* an update that left the state as it was and passed force_redraw False,
\* after one that changed it
C27_Witness ==
    /\ update_map_arg = "False"
    /\ current_state = entry_state
    /\ current_state = ROOMBA_STATES["run"]
    /\ nmsg > 1

----------------------------------------------------------------------------
(* Properties of a mid mission recharge (specification SpecRecharge) *)

\* C28: the updates of a mid mission recharge (phase hmMidMsn after run,
\* then charge over one or more updates, then run again, the cycle staying
\* the same) call no reset_map and leave the recorded path in place.
C28_RechargeKeepsPath ==
    [][ (recharge_stage' \in { "hmMidMsn", "charge", "resumed" }
         /\ _history["cycle"].current = _history["cycle"].current')
          => /\ reset_calls' = 0
             /\ IsPrefix(mapper_history, mapper_history')
             /\ IsPrefix(_history_translated, _history_translated') ]_vars

----------------------------------------------------------------------------
(* Properties of the loop's connect attempts (specification SpecConnection) *)

\* C29: a thread of the periodic connection loop that calls
\* remote_client.connect() has made no such call since the last remote
\* disconnect: two successive attempts have a remote disconnect between them.
C29_DisconnectBetweenAttempts ==
    [][ \A t \in Threads :
          (pc[t] = "pc_connect" /\ pc'[t] # "pc_connect") => ~attempted[t] ]_vars

----------------------------------------------------------------------------
(* Properties of the image angle (specification SpecAngle) *)

\* the number of [0, 360) that differs from n by a multiple of 360
Mod360(n) == CHOOSE v \in 0 .. 359 : \E k \in (0 - 3) .. 3 : n = v + 360 * k

\* C30: the image angle equals (map angle + theta + 180) mod 360, for the
\* angle as given and as validated, and lies in [0, 360).
C30_ImageAngleNormalised ==
    call.fn = "img_theta" =>
        /\ call.result = Mod360(call.angle + call.theta + 180)
        /\ call.result = Mod360(call.raw_angle + call.theta + 180)
        /\ 0 <= call.result /\ call.result < 360

\* a heading so far negative that the sum is negative
C30_Witness ==
    /\ call.fn = "img_theta"
    /\ call.angle + call.theta + 180 < 0
    /\ call.theta = 0 - 270
    /\ call.result = 270

----------------------------------------------------------------------------
(* The anomaly icon of a render *)

AnomalyFlags == { "stuck", "cancelled", "bin_full", "battery_low", "tank_low" }

\* the icon of the flag of highest priority among flags, in the order
\* stuck > cancelled > bin_full > battery_low > tank_low
HighestPriorityIcon(flags) ==
    IF "stuck" \in flags THEN "error"
    ELSE IF "cancelled" \in flags THEN "cancelled"
    ELSE IF "bin_full" \in flags THEN "bin_full"
    ELSE IF "battery_low" \in flags THEN "battery_low"
    ELSE "tank_low"

\* the device position of the last render is one _draw_roomba draws at
PositionDrawable ==
    LET pos == roomba_image_pos(current_state, _history_translated, DefaultMap)
    IN  TruthyNum(pos.x) /\ TruthyNum(pos.y)

\* C31: a render composes at most one anomaly icon; when an anomaly flag is
\* set and the device position is drawable, it is the icon of the flag of
\* highest priority in the order stuck > cancelled > bin_full > battery_low >
\* tank_low; with no anomaly flag set it composes none.
C31_AnomalyIconByPriority ==
    render_calls > 0
    => /\ Cardinality(_rendered_map \cap ProblemIcons) <= 1
       /\ (_flags \cap AnomalyFlags # { } /\ PositionDrawable)
              => _rendered_map \cap ProblemIcons = { HighestPriorityIcon(_flags) }
       /\ _flags \cap AnomalyFlags = { } => _rendered_map \cap ProblemIcons = { }

----------------------------------------------------------------------------
(* Icon set resolution (specification SpecIcon) *)

\* the last call resolved an icon set for a device of a series while the map
\* names an icon set that is not registered
UnregisteredMapIconSet ==
    /\ call.fn = "_get_icon_set"
    /\ call.sku \notin { NoneSku, << >> }
    /\ call.render_params # NoneParams
    /\ call.render_params.icon_set \notin { None, "" }
    /\ call.render_params.icon_set \notin call.icons

\* C32: when the icon set the map names is not registered, the resolution
\* returns the "default" icon set, whatever the series of the device.
C32_UnregisteredFallsBackToDefault ==
    UnregisteredMapIconSet => call.result.icon_set = "default"

\* C32, amended: when the icon set the map names is not registered, the
\* diagnostic is logged and the resolution returns the set registered under
\* the first letter of the sku when there is one, and "default" otherwise.
C32_UnregisteredFallsBackToSeries ==
    UnregisteredMapIconSet
    => /\ call.result.raised = None
       /\ call.result.warned
       /\ "default" \in call.icons
       /\ call.result.icon_set =
              IF call.sku[1] \in call.icons THEN call.sku[1] ELSE "default"

\* a device of the m series whose map names an unregistered icon set got the
\* icon set of its series
C32_Witness ==
    /\ UnregisteredMapIconSet
    /\ call.sku[1] = "m"
    /\ call.render_params.icon_set = "missing"
    /\ call.result.icon_set = "m"

----------------------------------------------------------------------------
(* The two path histories (specification SpecMap) *)

\* C33: the raw and the translated path history have the same length, and
\* each translated entry is the image position of the raw entry at its index.
C33_HistoriesParallel ==
    /\ Len(_history_translated) = Len(mapper_history)
    /\ \A i \in 1 .. Len(mapper_history) :
           _history_translated[i] = _map_coord_to_image_coord(mapper_history[i], DefaultMap)

\* a path of two different positions with different image positions, held
\* while the state is Running
C33_Witness ==
    /\ Len(mapper_history) = 2
    /\ mapper_history[1] # mapper_history[2]
    /\ _history_translated[1] # _history_translated[2]
    /\ current_state = "Running"

----------------------------------------------------------------------------
(* The device icon of a render (specification SpecCoord) *)

\* C34: with the translated position as the latest of the path and the device
\* not docked (Running), the layers _draw_roomba composes include the device
\* icon, also when the position has the pixel coordinate x = 0 or y = 0.
C34_DeviceIconAtLatestPosition ==
    Translated
    => "roomba" \in _draw_roomba(_base_rendered_map, ROOMBA_STATES["run"], { },
                                 << call.result >>, call.map)

----------------------------------------------------------------------------
(* The path of a mission under way at the start (specification SpecStart) *)

\* the first report had phase run and a pose capability, and a first pose
\* sample followed it
StartedDuringRun ==
    /\ nmsg = 2
    /\ Len(log) = 2
    /\ log[1] = Fragment([ cap |-> "{pose: 1}", cycle |-> "clean", phase |-> "run" ])
    /\ log[2]["pose"] # NonePose
    /\ current_state = "Running"

\* C35: in a program started during a run, a changed pose sample received
\* while the state is Running enters the position pipeline: as the first
\* sample the pipeline sees, it is counted by the skip filter.
C35_MidMissionPosesAccumulated ==
    [][(/\ StartedDuringRun
        /\ \E ps \in EndPoses, elapsed \in ElapsedMinutes :
               on_message(Fragment([ pose |-> ps ]), elapsed)
        /\ changed(_history', "pose", master_state')
        /\ co_ords(master_state') # zero_coords(0))
       => _points_skipped' = _points_skipped + 1]_vars

----------------------------------------------------------------------------
(* The cancelled flag over missions (specification Spec) *)

\* C36: when an update that began in the state Running ends in Running, the
\* cancelled flag is not set, whatever the phases that led from Cancelled
\* back to Running.
C36_CancelledFlagNotCarriedOver ==
    (current_state = "Running" /\ entry_state = "Running")
    => "cancelled" \notin _flags

----------------------------------------------------------------------------
(* Charging without mission minutes (specification Spec) *)

\* the last update began in Paused or Recharging and met phase charge with
\* no mission minutes
ChargeWithoutMinutes ==
    /\ entry_state \in { "Paused", "Recharging" }
    /\ master_state["phase"] = "charge"
    /\ \A elapsed \in ElapsedMinutes : mssnM(master_state, elapsed) = NoneNum

\* C37: when mssnM is None and phase charge arrives while the state is Paused
\* or Recharging, the update ends in the state Cancelled.
C37_ChargeWithoutMinutesCancels ==
    ChargeWithoutMinutes => current_state = "Cancelled"

\* C37, amended: when mssnM is None and phase charge arrives while the state
\* is Paused or Recharging, the update ends in the state Docking - End
\* Mission: the chain takes the Cancelled set ahead of it through its branch
\* Cancelled + charge.
C37_ChargeWithoutMinutesEndsMission ==
    ChargeWithoutMinutes => current_state = "Docking - End Mission"

\* a paused device without mission minutes reported phase charge
C37_Witness ==
    /\ ChargeWithoutMinutes
    /\ entry_state = "Paused"
    /\ current_state = "Docking - End Mission"

----------------------------------------------------------------------------
(* The paused hold on the dock (specification SpecBattery) *)

\* C38: an update that begins in Paused with mission minutes present, phase
\* charge and a reported battery percentage ends in Charging when the
\* percentage is the number 100, and in Paused when it is below 100.
C38_PausedHoldEndsAtFullBattery ==
    (/\ entry_state = "Paused"
     /\ master_state["phase"] = "charge"
     /\ \A elapsed \in ElapsedMinutes : mssnM(master_state, elapsed) # NoneNum
     /\ master_state["batPct"] # NoneNum)
    => current_state = IF master_state["batPct"] = 100 THEN "Charging" ELSE "Paused"

----------------------------------------------------------------------------
(* roomba_connected and client_error (specification SpecCallbacks) *)

\* C39: in every reachable state roomba_connected implies that client_error
\* is None.
C39_ConnectedImpliesNoError ==
    roomba_connected => client_error = None

----------------------------------------------------------------------------
(* Restarting the periodic loop *)

\* one caller in periodic mode: it starts the loop thread with connect(),
\* stops the loop with disconnect() once the loop has tried to connect, and
\* runs periodic_connection() again after the loop thread has finished
NextRestart ==
    \/ connect("main") \/ connect_start("main")
    \/ (pc[LoopThread] \in InLoop /\ attempted[LoopThread] /\ disconnect("main"))
    \/ (pc[LoopThread] = "finished" /\ periodic_connection("main"))
    \/ \E t \in { LoopThread, "main" } : loop_step(t)
    \/ \E error \in ClientErrors : on_connect(error) \/ on_disconnect(error)

\* a session of the periodic mode
InitRestart == InitTelemetry /\ InitConnection(FALSE)

SpecRestart == InitRestart /\ [][NextRestart]_vars

\* C40: a run of periodic_connection() calls remote_client.disconnect() only
\* after it has made a remote connect attempt, also when it runs after
\* disconnect() stopped an earlier loop.
C40_LoopRestartable ==
    [][\A t \in Threads : pc_disconnect(t) => attempted[t]]_vars

====
